---------------------------- MODULE Spec2Model ----------------------------
(***************************************************************************)
(* poppy/accel_math.py: the FFT dispatcher fft_2d with its backends (CUDA,  *)
(* OpenCL, FFTW, numpy), the FFTW calibration cache _FFTW_INIT, the OpenCL  *)
(* context cache _OPENCL_STATE and the shift helpers _fftshift/_ifftshift.  *)
(*                                                                         *)
(* A 2D array is a shape <<rows, cols>> and its ravel()ed contents, a       *)
(* function on 0 .. rows*cols-1 (row-major).  The transforms themselves are *)
(* done by external libraries; the model keeps each output cell as the     *)
(* named frequency bin of the array that was handed to the library.        *)
(***************************************************************************)
EXTENDS Integers, Sequences, FiniteSets, TLC

\* ---------------------------------------------------------------- bounds
\* largest array dimension drawn for an input array
MaxDim == 3
\* number of calls (fft_2d or get_opencl_context) made in one behaviour
MaxCalls == 2
\* largest number of OpenCL platforms / GPU devices the machine may show
MaxPlatforms == 2

\* threads of the sequential and of the concurrent specification
Threads == {"t1", "t2"}
MainThread == "t1"

Dims == 0 .. MaxDim
\* input shapes: square arrays, and arrays one column wider than tall
Shapes == {s \in Dims \X Dims : s[2] = s[1] \/ s[2] = s[1] + 1}
\* shapes drawn when several calls follow each other
SeqShapes == {s \in Shapes : s[1] = s[2]}
\* shapes used when two threads run at the same time
ConcShapes == {s \in SeqShapes : s[1] = 2}
\* the caller's normalization argument: None, or an explicit scalar
\* (a scalar is a fraction <<numerator, denominator>>; None has denominator 0)
\* largest value a constant input array is filled with
MaxFill == 2
Fills == 1 .. MaxFill
\* the sides of the constant square arrays
ConstShapes == {s \in SeqShapes : s[1] >= 1}
\* blockdim = (32, 32): the side of a block of kernel threads
BlockDim == 32
\* arrays handed to the shift helpers alone: every small shape, and shapes
\* whose leading dimension fills whole blocks (square, odd and even width)
ShiftShapes ==
    (Dims \X Dims) \cup {<<BlockDim, BlockDim + d>> : d \in 0 .. 2}
\* the sides of the grids whose kernel threads are run step by step
KernelSides == {2, 4}
None == <<0, 0>>
Normalizations == {None, <<2, 1>>}
Options == {"use_cuda", "use_opencl", "use_fftw"}
\* with the option the precision functions read
AllOptions == Options \cup {"double_precision"}

VARIABLES
    conf,          \* poppy.conf: use_cuda, use_opencl, use_fftw, double_precision
    avail,         \* _CUDA_AVAILABLE, _OPENCL_AVAILABLE, _FFTW_AVAILABLE
    modUseCuda,    \* module-level _USE_CUDA, set once at import
    FFTW_INIT,     \* _FFTW_INIT: the (shape, direction) keys already planned
    CUDA_PLANS,    \* _CUDA_PLANS: the params with a cached plan
    OPENCL_STATE,  \* _OPENCL_STATE: dict, a function on the keys it holds
    pc,            \* per thread: where in fft_2d / get_opencl_context it is
    loc,           \* per thread: the locals of the running call
    calls,         \* calls begun so far
    calibrations,  \* per key: calibration passes that ran to completion
    contexts,      \* pyopencl.Context objects constructed so far
    queues,        \* pyopencl.CommandQueue objects constructed so far
    enumerations,  \* calls of pyopencl.get_platforms() so far
    failed         \* the keys whose calibration has raised

vars == <<conf, avail, modUseCuda, FFTW_INIT, CUDA_PLANS, OPENCL_STATE, pc, loc,
          calls, calibrations, contexts, queues, enumerations, failed>>

caches == <<FFTW_INIT, CUDA_PLANS, OPENCL_STATE, calibrations, contexts, queues,
            enumerations, failed>>

\* ------------------------------------------------------- pure functions
\* Python's & on integers (two's complement of unbounded width)
RECURSIVE BitAnd(_, _)
BitAnd(a, b) ==
    IF a = 0 \/ b = 0 THEN 0
    ELSE IF a = -1 THEN b
    ELSE IF b = -1 THEN a
    ELSE (a % 2) * (b % 2) + 2 * BitAnd(a \div 2, b \div 2)

\* ispowerof2: num & (num-1) == 0
ispowerof2(num) == BitAnd(num, num - 1) = 0

Size(shape) == shape[1] * shape[2]
Cells(shape) == 0 .. Size(shape) - 1
Row(i, shape) == i \div shape[2]
Col(i, shape) == i % shape[2]
At(r, c, shape) == r * shape[2] + c

\* the caller's array: every cell holds a distinct label
InputData(shape) == [i \in Cells(shape) |-> [val |-> i + 1]]

\* the caller's array filled with one value
ConstantData(shape, c) == [i \in Cells(shape) |-> [val |-> c]]

\* np.zeros(shape)
Zeros(shape) == [i \in Cells(shape) |-> [val |-> 0]]

\* np.fft.fftshift: every axis rolled by n // 2
NpFftshift(x, shape) ==
    [i \in Cells(shape) |->
        x[At((Row(i, shape) - shape[1] \div 2) % shape[1],
             (Col(i, shape) - shape[2] \div 2) % shape[2], shape)]]

\* np.fft.ifftshift (mutant: only axis 0 is rolled back)
NpIfftshiftRowsOnly(x, shape) ==
    [i \in Cells(shape) |->
        x[At((Row(i, shape) + shape[1] \div 2) % shape[1], Col(i, shape), shape)]]

\* np.fft.ifftshift: every axis rolled by -(n // 2)
NpIfftshift(x, shape) ==
    [i \in Cells(shape) |->
        x[At((Row(i, shape) + shape[1] \div 2) % shape[1],
             (Col(i, shape) + shape[2] \div 2) % shape[2], shape)]]

\* cufftShift_2D_kernel over the grid [0,N) x [0,N): the thread of (x, y) with
\* y < N/2 swaps data[index] with data[index + sEq1] when x < N/2 and with
\* data[index + sEq2] otherwise; the swaps touch disjoint cells.
sEq1(N) == (N * N + N) \div 2
\* (mutant: the second swap uses the offset of the first)
sEq2AsFirst(N) == (N * N + N) \div 2

sEq2(N) == (N * N - N) \div 2
cufftShift_2D_kernel(data, N) ==
    [i \in DOMAIN data |->
        LET x == i % N
            y == i \div N
        IN  IF 2 * y < N
            THEN IF 2 * x < N THEN data[i + sEq1(N)] ELSE data[i + sEq2(N)]
            ELSE IF 2 * x < N THEN data[i - sEq2(N)] ELSE data[i - sEq1(N)]]

\* the test of _fftshift/_ifftshift for the kernel path
UsesKernel(shape) ==
    modUseCuda /\ shape[1] = shape[2] /\ BitAnd(shape[1], 31) = 0

\* which branch of _fftshift/_ifftshift serves an array of this shape
ShiftPath(shape) == IF UsesKernel(shape) THEN "kernel" ELSE "numpy"

\* _fftshift
_fftshift(x, shape) ==
    IF UsesKernel(shape) THEN cufftShift_2D_kernel(x, shape[1])
    ELSE NpFftshift(x, shape)

\* _ifftshift
_ifftshift(x, shape) ==
    IF UsesKernel(shape) THEN cufftShift_2D_kernel(x, shape[1])
    ELSE NpIfftshift(x, shape)

\* the result of a backend's 2D transform of x: cell i is bin i of the
\* forward (or inverse) transform of x
Transform(x, forward) ==
    [i \in DOMAIN x |-> [bin |-> i, fwd |-> forward, of |-> x]]

\* the value of bin (0, 0) of the forward 2D transform of x, as every backend's
\* library computes it: the sum of x[r, c] * exp(0) over all cells
RECURSIVE SumTo(_, _)
SumTo(x, n) == IF n = 0 THEN 0 ELSE x[n - 1].val + SumTo(x, n - 1)
ForwardBinZero(x) == SumTo(x, Cardinality(DOMAIN x))

\* wavefront *= normalization
Scale(x, normalization) ==
    [i \in DOMAIN x |-> [mul |-> normalization, x |-> x[i]]]

\* _float(): np.float64 if conf.double_precision else np.float32
_float == [kind |-> "float", bits |-> IF conf["double_precision"] THEN 64 ELSE 32]

\* _complex(): np.complex128 if conf.double_precision else np.complex64 (the
\* bits are those of each of the two parts)
_complex ==
    [kind |-> "complex", bits |-> IF conf["double_precision"] THEN 64 ELSE 32]

\* np.zeros(shape) without dtype makes float64
ZerosDtype == [kind |-> "float", bits |-> 64]

\* what FFTW's measuring planner leaves in the array it plans on
Destroyed(x) == [i \in DOMAIN x |-> [val |-> -1]]

\* ------------------------------------------------------------ the state
EmptyDict == [k \in {} |-> 0]
Put(d, k, v) == [x \in DOMAIN d \cup {k} |-> IF x = k THEN v ELSE d[x]]
Keys == Shapes \X {"forward", "backward"}

\* numpy element types, and the keyword arguments of a pyfftw transform
NoType == [kind |-> "none", bits |-> 0]
NoSettings == [planner_effort |-> "none", threads |-> "none"]

\* the locals of a thread that is in no call
IdleLoc ==
    [fn |-> "none", shape |-> <<0, 0>>, wavefront |-> EmptyDict, input |-> EmptyDict,
     forward |-> TRUE, normalization |-> None, fftshift |-> TRUE,
     USE_CUDA |-> FALSE, USE_OPENCL |-> FALSE, USE_FFTW |-> FALSE,
     method |-> "none", ops |-> <<>>, given |-> EmptyDict,
     test_array |-> EmptyDict, platforms |-> 0, device |-> 0, context |-> 0,
     queue |-> 0,
     result |-> <<0, 0>>, err |-> "none", norm_arg |-> None,
     at |-> EmptyDict, temp |-> EmptyDict, fetched |-> EmptyDict,
     test_dtype |-> NoType, calibrated_with |-> NoSettings,
     transformed_with |-> NoSettings]

Init ==
    /\ conf \in {c \in [AllOptions -> BOOLEAN] : c["double_precision"]}
    /\ avail \in [{"cuda", "opencl", "fftw"} -> BOOLEAN]
    /\ modUseCuda = (conf["use_cuda"] /\ avail["cuda"])
    /\ FFTW_INIT = {}
    /\ CUDA_PLANS = {}
    /\ OPENCL_STATE = EmptyDict
    /\ pc = [t \in Threads |-> "idle"]
    /\ loc = [t \in Threads |-> IdleLoc]
    /\ calls = 0
    /\ calibrations = [k \in Keys |-> 0]
    /\ contexts = 0
    /\ queues = 0
    /\ enumerations = 0
    /\ failed = {}

\* ------------------------------------------------- fft_2d: the selection
\* lines 171-173: a fast FFT must be enabled and its library present (mutant:
\* the library's presence is not asked)
EffectiveWithoutLibrary(backend, option) == conf[option]

\* (mutant: CUDA is judged by the flag computed when the module was loaded)
EffectiveAtImport(backend, option) ==
    IF backend = "cuda" THEN modUseCuda ELSE conf[option] /\ avail[backend]

Effective(backend, option) == conf[option] /\ avail[backend]

\* lines 178-181: OpenCL is switched off for this call on an unsupported size
OpenclAfterDemotion(shape) ==
    IF Effective("opencl", "use_opencl") /\ ~ispowerof2(shape[1]) THEN FALSE
    ELSE Effective("opencl", "use_opencl")

\* lines 184-191 and the if/elif chain of lines 197, 217, 229, 254 (mutant:
\* FFTW tested before OpenCL)
SelectFftwFirst(useCuda, useOpencl, useFftw) ==
    IF useCuda THEN "cuda"
    ELSE IF useFftw THEN "fftw"
    ELSE IF useOpencl THEN "opencl"
    ELSE "numpy"

Select(useCuda, useOpencl, useFftw) ==
    IF useCuda THEN "cuda"
    ELSE IF useOpencl THEN "opencl"
    ELSE IF useFftw THEN "fftw"
    ELSE "numpy"

\* lines 194-195: the inverse shift before a backward FFT (mutant: before
\* every FFT)
PreShiftAnyDirection(x, shape, forward, fftshift) ==
    IF fftshift
    THEN [wavefront |-> _ifftshift(x, shape), ops |-> <<"ifftshift">>]
    ELSE [wavefront |-> x, ops |-> <<>>]

PreShift(x, shape, forward, fftshift) ==
    IF (~forward) /\ fftshift
    THEN [wavefront |-> _ifftshift(x, shape), ops |-> <<"ifftshift">>]
    ELSE [wavefront |-> x, ops |-> <<>>]

\* lines 143, 171-195: the call of fft_2d on the array x, up to the backend
\* branch
FftEnterWith(t, x, shape, forward, normalization, fftshift) ==
    /\ pc[t] = "idle"
    /\ calls < MaxCalls
    /\ calls' = calls + 1
    /\ LET useCuda == Effective("cuda", "use_cuda")
           useOpencl == OpenclAfterDemotion(shape)
           useFftw == Effective("fftw", "use_fftw")
       IN  loc' = [loc EXCEPT ![t] =
                [IdleLoc EXCEPT
                    !.fn = "fft_2d", !.shape = shape,
                    !.input = x,
                    !.wavefront = PreShift(x, shape, forward, fftshift).wavefront,
                    !.ops = PreShift(x, shape, forward, fftshift).ops,
                    !.forward = forward, !.normalization = normalization,
                    !.norm_arg = normalization,
                    !.fftshift = fftshift,
                    !.USE_CUDA = useCuda, !.USE_OPENCL = useOpencl,
                    !.USE_FFTW = useFftw,
                    !.method = Select(useCuda, useOpencl, useFftw)]]
    /\ pc' = [pc EXCEPT ![t] = "dispatch"]
    /\ UNCHANGED <<conf, avail, modUseCuda, caches>>

\* the call of fft_2d on an array of distinct values
FftEnter(t, shape, forward, normalization, fftshift) ==
    FftEnterWith(t, InputData(shape), shape, forward, normalization, fftshift)

\* (mutant: a failed backend hands the call to numpy)
RaiseFallsBack(t, err) ==
    /\ pc' = [pc EXCEPT ![t] = "dispatch"]
    /\ loc' = [loc EXCEPT ![t].err = err, ![t].method = "numpy"]

\* an exception leaves the call: nothing of the call's later steps runs
Raise(t, err) ==
    /\ pc' = [pc EXCEPT ![t] = "raised"]
    /\ loc' = [loc EXCEPT ![t].err = err]

\* (mutant: the forward default divides by the number of elements)
DefaultNormPerElement(shape, forward) ==
    IF forward THEN <<1, shape[1] * shape[2]>> ELSE <<shape[1], 1>>

\* lines 219, 233, 257: 1./shape[0] forward, shape[0] backward
DefaultNorm(shape, forward) ==
    IF forward THEN <<1, shape[1]>> ELSE <<shape[1], 1>>

\* line 199: 1./shape[0] regardless of direction
CudaDefaultNorm(shape, forward) == <<1, shape[1]>>

\* the default is computed only when the caller gave none; 1./0 raises
NormRaises(l, default) == l.normalization = None /\ default[2] = 0

\* if normalization is None: normalization = default (mutant: the default
\* replaces the caller's value too)
ResolvedAlwaysDefault(l, default) == default

Resolved(l, default) == IF l.normalization = None THEN default ELSE l.normalization

\* lines 197-215: the CUDA branch
CudaTransform(t) ==
    /\ pc[t] = "dispatch"
    /\ loc[t].method = "cuda"
    /\ LET l == loc[t]
           default == CudaDefaultNorm(l.shape, l.forward)
       IN  IF NormRaises(l, default)
           THEN Raise(t, "ZeroDivisionError") /\ UNCHANGED CUDA_PLANS
           ELSE \E planOk \in BOOLEAN, execOk \in BOOLEAN :
                IF l.shape \notin CUDA_PLANS /\ ~planOk
                THEN Raise(t, "PlanCreationError") /\ UNCHANGED CUDA_PLANS
                ELSE /\ CUDA_PLANS' = CUDA_PLANS \cup {l.shape}
                     /\ IF execOk
                        THEN /\ pc' = [pc EXCEPT ![t] = "postshift"]
                             /\ loc' = [loc EXCEPT
                                   ![t].normalization = Resolved(l, default),
                                   ![t].given = l.wavefront,
                                   ![t].wavefront = Transform(l.wavefront, l.forward),
                                   ![t].ops = Append(l.ops, "cuda")]
                        ELSE Raise(t, "BackendExecutionError")
    /\ UNCHANGED <<conf, avail, modUseCuda, FFTW_INIT, OPENCL_STATE, calls,
                   calibrations, contexts, queues, enumerations, failed>>

\* lines 254-258: the numpy branch
NumpyTransform(t) ==
    /\ pc[t] = "dispatch"
    /\ loc[t].method = "numpy"
    /\ LET l == loc[t]
           default == DefaultNorm(l.shape, l.forward)
       IN  IF NormRaises(l, default)
           THEN Raise(t, "ZeroDivisionError")
           ELSE \E execOk \in BOOLEAN :
                IF execOk
                THEN /\ pc' = [pc EXCEPT ![t] = "postshift"]
                     /\ loc' = [loc EXCEPT
                           ![t].normalization = Resolved(l, default),
                           ![t].given = l.wavefront,
                           ![t].wavefront = Transform(l.wavefront, l.forward),
                           ![t].ops = Append(l.ops, "numpy")]
                ELSE Raise(t, "BackendExecutionError")
    /\ UNCHANGED <<conf, avail, modUseCuda, caches, calls>>

\* ----------------------------------------------------- the FFTW branch
\* line 230 and the key of lines 236, 250
FFT_direction(forward) == IF forward THEN "forward" ELSE "backward"
FftwKey(l) == <<l.shape, FFT_direction(l.forward)>>

\* line 236: the planning is needed when the key is not in _FFTW_INIT (mutant:
\* the direction is left out of the test)
NeedsCalibrationAnyDirection(l) ==
    \A d \in {"forward", "backward"} : <<l.shape, d>> \notin FFTW_INIT

NeedsCalibration(l) == FftwKey(l) \notin FFTW_INIT

\* lines 229-236: the default normalization and the test of _FFTW_INIT
FftwCheck(t) ==
    /\ pc[t] = "dispatch"
    /\ loc[t].method = "fftw"
    /\ LET l == loc[t]
           default == DefaultNorm(l.shape, l.forward)
       IN  IF NormRaises(l, default)
           THEN Raise(t, "ZeroDivisionError")
           ELSE /\ loc' = [loc EXCEPT ![t].normalization = Resolved(l, default)]
                /\ pc' = [pc EXCEPT ![t] =
                            IF NeedsCalibration(l) THEN "calibrate" ELSE "fftw_exec"]
    /\ UNCHANGED <<conf, avail, modUseCuda, caches, calls>>

\* line 246-247: the array the measuring transform is run on (mutant: the
\* caller's array itself)
CalibrationArrayIsWavefront(l) ==
    [name |-> "wavefront", cells |-> l.wavefront, dtype |-> _complex]

CalibrationArray(l) ==
    [name |-> "test_array", cells |-> Zeros(l.shape), dtype |-> ZerosDtype]

\* lines 247-248 and 252-253: the keyword arguments of the two do_fft calls
CalibrationSettings ==
    [planner_effort |-> "FFTW_MEASURE", threads |-> "multiprocessing.cpu_count()"]
TransformSettings ==
    [planner_effort |-> "FFTW_MEASURE", threads |-> "multiprocessing.cpu_count()"]

\* (mutant of lines 240-250: the key is entered before the measuring transform)
FftwCalibrateMarkedFirst(t) ==
    /\ pc[t] = "calibrate"
    /\ FFTW_INIT' = FFTW_INIT \cup {FftwKey(loc[t])}
    /\ LET l == loc[t]
           a == CalibrationArray(l)
       IN  \E ok \in BOOLEAN :
           IF ok
           THEN /\ pc' = [pc EXCEPT ![t] = "mark"]
                /\ loc' = [loc EXCEPT
                      ![t].test_array = Transform(a.cells, l.forward),
                      ![t].test_dtype = a.dtype,
                      ![t].calibrated_with = CalibrationSettings,
                      ![t].ops = Append(l.ops, "calibrate")]
                /\ calibrations' = [calibrations EXCEPT ![FftwKey(l)] = @ + 1]
                /\ UNCHANGED failed
           ELSE /\ Raise(t, "PlanCreationError")
                /\ failed' = failed \cup {FftwKey(l)}
                /\ UNCHANGED calibrations
    /\ UNCHANGED <<conf, avail, modUseCuda, CUDA_PLANS, OPENCL_STATE,
                   calls, contexts, queues, enumerations>>

\* lines 240-248: the measuring transform, destructive to the array it is given
FftwCalibrate(t) ==
    /\ pc[t] = "calibrate"
    /\ LET l == loc[t]
           a == CalibrationArray(l)
       IN  \E ok \in BOOLEAN :
           IF ok
           THEN /\ pc' = [pc EXCEPT ![t] = "mark"]
                /\ loc' = [loc EXCEPT
                      ![t].test_array = Transform(a.cells, l.forward),
                      ![t].test_dtype = a.dtype,
                      ![t].calibrated_with = CalibrationSettings,
                      ![t].wavefront = IF a.name = "wavefront"
                                       THEN Destroyed(l.wavefront) ELSE l.wavefront,
                      ![t].ops = Append(l.ops, "calibrate")]
                /\ calibrations' = [calibrations EXCEPT ![FftwKey(l)] = @ + 1]
                /\ UNCHANGED failed
           ELSE /\ Raise(t, "PlanCreationError")
                /\ failed' = failed \cup {FftwKey(l)}
                /\ UNCHANGED calibrations
    /\ UNCHANGED <<conf, avail, modUseCuda, FFTW_INIT, CUDA_PLANS, OPENCL_STATE,
                   calls, contexts, queues, enumerations>>

\* line 250: _FFTW_INIT[(wavefront.shape, FFT_direction)] = True
FftwMark(t) ==
    /\ pc[t] = "mark"
    /\ FFTW_INIT' = FFTW_INIT \cup {FftwKey(loc[t])}
    /\ pc' = [pc EXCEPT ![t] = "fftw_exec"]
    /\ UNCHANGED <<conf, avail, modUseCuda, CUDA_PLANS, OPENCL_STATE, loc, calls,
                   calibrations, contexts, queues, enumerations, failed>>

\* lines 252-253: the real transform
FftwTransform(t) ==
    /\ pc[t] = "fftw_exec"
    /\ LET l == loc[t]
       IN  \E execOk \in BOOLEAN :
           IF execOk
           THEN /\ pc' = [pc EXCEPT ![t] = "postshift"]
                /\ loc' = [loc EXCEPT
                      ![t].given = l.wavefront,
                      ![t].wavefront = Transform(l.wavefront, l.forward),
                      ![t].transformed_with = TransformSettings,
                      ![t].ops = Append(l.ops, "fftw")]
           ELSE Raise(t, "BackendExecutionError")
    /\ UNCHANGED <<conf, avail, modUseCuda, caches, calls>>

\* ---------------------------------------------------- the end of fft_2d
\* lines 260-261: the shift after a forward FFT
PostShift(x, shape, forward, fftshift) ==
    IF forward /\ fftshift
    THEN [wavefront |-> _fftshift(x, shape), ops |-> <<"fftshift">>]
    ELSE [wavefront |-> x, ops |-> <<>>]

\* lines 260-265: the shift, wavefront *= normalization, return wavefront
FftFinish(t) ==
    /\ pc[t] = "postshift"
    /\ LET l == loc[t]
           shifted == PostShift(l.wavefront, l.shape, l.forward, l.fftshift)
       IN  loc' = [loc EXCEPT
              ![t].wavefront = Scale(shifted.wavefront, l.normalization),
              ![t].ops = l.ops \o shifted.ops \o <<"normalize">>]
    /\ pc' = [pc EXCEPT ![t] = "done"]
    /\ UNCHANGED <<conf, avail, modUseCuda, caches, calls>>

\* the caller has the result, or the exception, and is free to call again
Return(t) ==
    /\ pc[t] \in {"done", "raised"}
    /\ pc' = [pc EXCEPT ![t] = "idle"]
    /\ loc' = [loc EXCEPT ![t] = IdleLoc]
    /\ UNCHANGED <<conf, avail, modUseCuda, caches, calls>>

\* the caller changes one option of poppy.conf between calls
SetConf(option, value) ==
    /\ \A t \in Threads : pc[t] = "idle"
    /\ conf[option] # value
    /\ conf' = [conf EXCEPT ![option] = value]
    /\ UNCHANGED <<avail, modUseCuda, caches, pc, loc, calls>>

\* --------------------------------- the OpenCL branch, get_opencl_context
\* lines 217-221: the default normalization, then the call of get_opencl_context
OpenclBegin(t) ==
    /\ pc[t] = "dispatch"
    /\ loc[t].method = "opencl"
    /\ LET l == loc[t]
           default == DefaultNorm(l.shape, l.forward)
       IN  IF NormRaises(l, default)
           THEN Raise(t, "ZeroDivisionError")
           ELSE /\ loc' = [loc EXCEPT ![t].normalization = Resolved(l, default)]
                /\ pc' = [pc EXCEPT ![t] = "ctx_check"]
    /\ UNCHANGED <<conf, avail, modUseCuda, caches, calls>>

\* a direct call of get_opencl_context, defined only when OpenCL is available
GetContextCall(t) ==
    /\ pc[t] = "idle"
    /\ calls < MaxCalls
    /\ avail["opencl"]
    /\ calls' = calls + 1
    /\ loc' = [loc EXCEPT ![t] = [IdleLoc EXCEPT !.fn = "get_opencl_context"]]
    /\ pc' = [pc EXCEPT ![t] = "ctx_check"]
    /\ UNCHANGED <<conf, avail, modUseCuda, caches>>

\* line 277: the state is initialised when it is not empty (mutant: when it
\* holds a context)
NotInitialisedNoContext(state) == "context" \notin DOMAIN state

NotInitialised(state) == Cardinality(DOMAIN state) = 0

CtxCheck(t) ==
    /\ pc[t] = "ctx_check"
    /\ pc' = [pc EXCEPT ![t] =
                IF NotInitialised(OPENCL_STATE) THEN "ctx_platforms" ELSE "ctx_return"]
    /\ UNCHANGED <<conf, avail, modUseCuda, caches, loc, calls>>

\* line 279: exactly one platform is accepted (mutant: the first of several)
PlatformAcceptedFirst(n) == n >= 1

PlatformAccepted(n) == n = 1

\* lines 278-282: the platforms are enumerated
CtxPlatforms(t) ==
    /\ pc[t] = "ctx_platforms"
    /\ enumerations' = enumerations + 1
    /\ \E n \in 0 .. MaxPlatforms :
          IF PlatformAccepted(n)
          THEN /\ OPENCL_STATE' = Put(OPENCL_STATE, "platform", 1)
               /\ pc' = [pc EXCEPT ![t] = "ctx_devices"]
               /\ loc' = [loc EXCEPT ![t].platforms = n]
          ELSE /\ pc' = [pc EXCEPT ![t] = "raised"]
               /\ loc' = [loc EXCEPT ![t].err = "RuntimeError", ![t].platforms = n]
               /\ UNCHANGED OPENCL_STATE
    /\ UNCHANGED <<conf, avail, modUseCuda, FFTW_INIT, CUDA_PLANS, calls,
                   calibrations, contexts, queues, failed>>

\* lines 283-290: one GPU is used and stored; of several, gpus[1] is used and
\* not stored; of none, gpus[1] raises
CtxDevices(t) ==
    /\ pc[t] = "ctx_devices"
    /\ \E g \in 0 .. MaxPlatforms :
          IF g = 1
          THEN /\ OPENCL_STATE' = Put(OPENCL_STATE, "device", 1)
               /\ loc' = [loc EXCEPT ![t].device = 1]
               /\ pc' = [pc EXCEPT ![t] = "ctx_context"]
          ELSE IF g > 1
          THEN /\ loc' = [loc EXCEPT ![t].device = 2]
               /\ pc' = [pc EXCEPT ![t] = "ctx_context"]
               /\ UNCHANGED OPENCL_STATE
          ELSE Raise(t, "IndexError") /\ UNCHANGED OPENCL_STATE
    /\ UNCHANGED <<conf, avail, modUseCuda, FFTW_INIT, CUDA_PLANS, calls,
                   calibrations, contexts, queues, enumerations, failed>>

\* line 291: context = pyopencl.Context(devices=[device])
CtxContext(t) ==
    /\ pc[t] = "ctx_context"
    /\ \E ok \in BOOLEAN :
          IF ok
          THEN /\ contexts' = contexts + 1
               /\ loc' = [loc EXCEPT ![t].context = contexts + 1]
               /\ pc' = [pc EXCEPT ![t] = "ctx_queue"]
          ELSE Raise(t, "ContextError") /\ UNCHANGED contexts
    /\ UNCHANGED <<conf, avail, modUseCuda, FFTW_INIT, CUDA_PLANS, OPENCL_STATE,
                   calls, calibrations, queues, enumerations, failed>>

\* line 292: queue = pyopencl.CommandQueue(context)
CtxQueue(t) ==
    /\ pc[t] = "ctx_queue"
    /\ \E ok \in BOOLEAN :
          IF ok
          THEN /\ queues' = queues + 1
               /\ loc' = [loc EXCEPT ![t].queue = queues + 1]
               /\ pc' = [pc EXCEPT ![t] = "ctx_store_context"]
          ELSE Raise(t, "QueueError") /\ UNCHANGED queues
    /\ UNCHANGED <<conf, avail, modUseCuda, FFTW_INIT, CUDA_PLANS, OPENCL_STATE,
                   calls, calibrations, contexts, enumerations, failed>>

\* line 294: _OPENCL_STATE['context'] = context
CtxStoreContext(t) ==
    /\ pc[t] = "ctx_store_context"
    /\ OPENCL_STATE' = Put(OPENCL_STATE, "context", loc[t].context)
    /\ pc' = [pc EXCEPT ![t] = "ctx_store_queue"]
    /\ UNCHANGED <<conf, avail, modUseCuda, FFTW_INIT, CUDA_PLANS, loc, calls,
                   calibrations, contexts, queues, enumerations, failed>>

\* line 295: _OPENCL_STATE['queue'] = queue
CtxStoreQueue(t) ==
    /\ pc[t] = "ctx_store_queue"
    /\ OPENCL_STATE' = Put(OPENCL_STATE, "queue", loc[t].queue)
    /\ pc' = [pc EXCEPT ![t] = "ctx_return"]
    /\ UNCHANGED <<conf, avail, modUseCuda, FFTW_INIT, CUDA_PLANS, loc, calls,
                   calibrations, contexts, queues, enumerations, failed>>

\* line 296: return (_OPENCL_STATE['context'], _OPENCL_STATE['queue'])
CtxReturn(t) ==
    /\ pc[t] = "ctx_return"
    /\ IF {"context", "queue"} \subseteq DOMAIN OPENCL_STATE
       THEN /\ loc' = [loc EXCEPT
                  ![t].result = <<OPENCL_STATE["context"], OPENCL_STATE["queue"]>>]
            /\ pc' = [pc EXCEPT ![t] =
                        IF loc[t].fn = "fft_2d" THEN "opencl_exec" ELSE "done"]
       ELSE Raise(t, "KeyError")
    /\ UNCHANGED <<conf, avail, modUseCuda, caches, calls>>

\* lines 222-227: to the device, the transform, back into wavefront[:]
OpenclTransform(t) ==
    /\ pc[t] = "opencl_exec"
    /\ LET l == loc[t]
       IN  \E execOk \in BOOLEAN :
           IF execOk
           THEN /\ pc' = [pc EXCEPT ![t] = "postshift"]
                /\ loc' = [loc EXCEPT
                      ![t].given = l.wavefront,
                      ![t].wavefront = Transform(l.wavefront, l.forward),
                      ![t].ops = Append(l.ops, "opencl")]
           ELSE Raise(t, "BackendExecutionError")
    /\ UNCHANGED <<conf, avail, modUseCuda, caches, calls>>

\* ------------------------------------------- the shift helpers on their own
\* a call of _fftshift(x)
FftshiftCall(t, shape) ==
    /\ pc[t] = "idle"
    /\ calls < MaxCalls
    /\ calls' = calls + 1
    /\ loc' = [loc EXCEPT ![t] =
                  [IdleLoc EXCEPT !.fn = "_fftshift", !.shape = shape,
                      !.input = InputData(shape),
                      !.wavefront = _fftshift(InputData(shape), shape),
                      !.ops = <<ShiftPath(shape)>>]]
    /\ pc' = [pc EXCEPT ![t] = "shifted"]
    /\ UNCHANGED <<conf, avail, modUseCuda, caches>>

\* the call of _ifftshift on what _fftshift returned
IfftshiftCall(t) ==
    /\ pc[t] = "shifted"
    /\ loc' = [loc EXCEPT ![t].fn = "_ifftshift",
                          ![t].wavefront = _ifftshift(loc[t].wavefront, loc[t].shape),
                          ![t].ops = Append(loc[t].ops, ShiftPath(loc[t].shape))]
    /\ pc' = [pc EXCEPT ![t] = "unshifted"]
    /\ UNCHANGED <<conf, avail, modUseCuda, caches, calls>>

\* ------------------------------------- cufftShift_2D_kernel, thread by thread
\* The thread of grid position (x, y) has index = y*N + x.  Every read and
\* every write of data is a step of its own, and the threads' steps interleave
\* freely.
KernelX(index, N) == index % N
KernelY(index, N) == index \div N

\* the offset of the cell a thread swaps with, 0 for a thread that swaps nothing
SwapOffset(index, N) ==
    IF 2 * KernelX(index, N) < N
    THEN IF 2 * KernelY(index, N) < N THEN sEq1(N) ELSE 0
    ELSE IF 2 * KernelY(index, N) < N THEN sEq2(N) ELSE 0

\* the elements of data a thread reads or writes
Accesses(index, N) ==
    IF SwapOffset(index, N) = 0 THEN {}
    ELSE {index, index + SwapOffset(index, N)}

\* cufftShift_2D_kernel[numBlocks, blockdim](data, N): one thread per element;
\* a thread whose tests fail has nothing to run
KernelLaunch(t, N) ==
    /\ pc[t] = "idle"
    /\ calls = 0
    /\ calls' = calls + 1
    /\ loc' = [loc EXCEPT ![t] =
                  [IdleLoc EXCEPT !.fn = "cufftShift_2D_kernel", !.shape = <<N, N>>,
                      !.input = InputData(<<N, N>>),
                      !.wavefront = InputData(<<N, N>>),
                      !.at = [i \in Cells(<<N, N>>) |->
                                 IF SwapOffset(i, N) = 0 THEN "end" ELSE "temp"],
                      !.temp = [i \in Cells(<<N, N>>) |-> [val |-> 0]],
                      !.fetched = [i \in Cells(<<N, N>>) |-> [val |-> 0]]]]
    /\ pc' = [pc EXCEPT ![t] = "kernel"]
    /\ UNCHANGED <<conf, avail, modUseCuda, caches>>

\* temp = data[index]
KernelReadTemp(t, index) ==
    /\ pc[t] = "kernel"
    /\ index \in DOMAIN loc[t].at
    /\ loc[t].at[index] = "temp"
    /\ loc' = [loc EXCEPT ![t].temp[index] = loc[t].wavefront[index],
                          ![t].at[index] = "fetch"]
    /\ UNCHANGED <<conf, avail, modUseCuda, caches, calls, pc>>

\* data[index] = data[index + sEq]: the read
KernelFetch(t, index) ==
    /\ pc[t] = "kernel"
    /\ index \in DOMAIN loc[t].at
    /\ loc[t].at[index] = "fetch"
    /\ loc' = [loc EXCEPT
          ![t].fetched[index] =
              loc[t].wavefront[index + SwapOffset(index, loc[t].shape[1])],
          ![t].at[index] = "store"]
    /\ UNCHANGED <<conf, avail, modUseCuda, caches, calls, pc>>

\* data[index] = data[index + sEq]: the write
KernelStore(t, index) ==
    /\ pc[t] = "kernel"
    /\ index \in DOMAIN loc[t].at
    /\ loc[t].at[index] = "store"
    /\ loc' = [loc EXCEPT ![t].wavefront[index] = loc[t].fetched[index],
                          ![t].at[index] = "swap"]
    /\ UNCHANGED <<conf, avail, modUseCuda, caches, calls, pc>>

\* data[index + sEq] = temp
KernelStoreTemp(t, index) ==
    /\ pc[t] = "kernel"
    /\ index \in DOMAIN loc[t].at
    /\ loc[t].at[index] = "swap"
    /\ loc' = [loc EXCEPT
          ![t].wavefront[index + SwapOffset(index, loc[t].shape[1])] =
              loc[t].temp[index],
          ![t].at[index] = "end"]
    /\ UNCHANGED <<conf, avail, modUseCuda, caches, calls, pc>>

KernelIndices == UNION {Cells(<<N, N>>) : N \in KernelSides}

\* ------------------------------------------------------ specifications
\* the steps of a call that is under way
Work(t) ==
    \/ CudaTransform(t)
    \/ OpenclBegin(t)
    \/ CtxCheck(t)
    \/ CtxPlatforms(t)
    \/ CtxDevices(t)
    \/ CtxContext(t)
    \/ CtxQueue(t)
    \/ CtxStoreContext(t)
    \/ CtxStoreQueue(t)
    \/ CtxReturn(t)
    \/ OpenclTransform(t)
    \/ FftwCheck(t)
    \/ FftwCalibrate(t)
    \/ FftwMark(t)
    \/ FftwTransform(t)
    \/ NumpyTransform(t)
    \/ FftFinish(t)

Step(t) == Work(t) \/ Return(t)

\* one caller: every call returns before the next one starts
Next ==
    \/ \E shape \in SeqShapes, forward \in BOOLEAN :
          FftEnter(MainThread, shape, forward, None, TRUE)
    \/ GetContextCall(MainThread)
    \/ Step(MainThread)
    \/ \E option \in Options, value \in BOOLEAN : SetConf(option, value)

Spec == Init /\ [][Next]_vars

\* one call of fft_2d with every combination of its arguments, made after
\* any changes of the configuration since the module was loaded
NextCall ==
    \/ \E shape \in Shapes, forward \in BOOLEAN, normalization \in Normalizations,
          fftshift \in BOOLEAN :
          /\ calls = 0
          /\ FftEnter(MainThread, shape, forward, normalization, fftshift)
    \/ Work(MainThread)
    \/ \E option \in AllOptions, value \in BOOLEAN :
          calls = 0 /\ SetConf(option, value)

SpecCall == Init /\ [][NextCall]_vars

\* one forward call of fft_2d on a constant square array
NextConst ==
    \/ \E shape \in ConstShapes, c \in Fills, normalization \in Normalizations,
          fftshift \in BOOLEAN :
          /\ calls = 0
          /\ FftEnterWith(MainThread, ConstantData(shape, c), shape, TRUE,
                          normalization, fftshift)
    \/ Work(MainThread)

SpecConst == Init /\ [][NextConst]_vars

\* _fftshift and then _ifftshift called on one array, after any changes of
\* the configuration since the module was loaded
NextShift ==
    \/ \E shape \in ShiftShapes : calls = 0 /\ FftshiftCall(MainThread, shape)
    \/ IfftshiftCall(MainThread)
    \/ \E option \in Options, value \in BOOLEAN :
          calls = 0 /\ SetConf(option, value)

SpecShift == Init /\ [][NextShift]_vars

\* one launch of the kernel; the kernel exists when CUDA was enabled at import
InitKernel ==
    /\ Init
    /\ \A option \in Options : conf[option]
    /\ \A backend \in DOMAIN avail : avail[backend]

NextKernel ==
    \/ \E N \in KernelSides : KernelLaunch(MainThread, N)
    \/ \E index \in KernelIndices : KernelReadTemp(MainThread, index)
    \/ \E index \in KernelIndices : KernelFetch(MainThread, index)
    \/ \E index \in KernelIndices : KernelStore(MainThread, index)
    \/ \E index \in KernelIndices : KernelStoreTemp(MainThread, index)

SpecKernel == InitKernel /\ [][NextKernel]_vars

\* several callers at once; no lock orders their steps
NextConc ==
    \/ \E t \in Threads, shape \in ConcShapes, forward \in BOOLEAN :
          FftEnter(t, shape, forward, None, TRUE)
    \/ \E t \in Threads : GetContextCall(t)
    \/ \E t \in Threads : Step(t)

SpecConc == Init /\ [][NextConc]_vars

\* ------------------------------------------------------------ the claims
BackendOps == {"cuda", "opencl", "fftw", "numpy"}
Range(q) == {q[i] : i \in DOMAIN q}
InFft(t) == loc[t].fn = "fft_2d"
\* the backends that have performed a transform in the call of t
Performed(t) == SelectSeq(loc[t].ops, LAMBDA o : o \in BackendOps)
\* the backend's transform of the call of t has returned
Transformed(t) == InFft(t) /\ pc[t] \in {"postshift", "done"}

PriorityOrder == <<"cuda", "opencl", "fftw", "numpy">>
Flag(l, b) ==
    CASE b = "cuda" -> l.USE_CUDA
      [] b = "opencl" -> l.USE_OPENCL
      [] b = "fftw" -> l.USE_FFTW
      [] OTHER -> TRUE
Highest(l) ==
    PriorityOrder[CHOOSE i \in 1 .. 4 :
        /\ Flag(l, PriorityOrder[i])
        /\ \A j \in 1 .. (i - 1) : ~Flag(l, PriorityOrder[j])]
AllEnabled ==
    /\ \A o \in Options : conf[o]
    /\ \A b \in {"cuda", "opencl", "fftw"} : avail[b]

\* C1: in every call of fft_2d at most one backend transforms, a call whose
\* transform has returned was served by exactly one, and that one is the first
\* in the order CUDA > OpenCL > FFTW > numpy whose flag is true after the size
\* demotion; with all three libraries present and enabled it is CUDA, for every
\* shape and direction.
C1_PriorityOrder ==
    \A t \in Threads : InFft(t) =>
        /\ Len(Performed(t)) <= 1
        /\ loc[t].method = Highest(loc[t])
        /\ Transformed(t) =>
              /\ Performed(t) = <<Highest(loc[t])>>
              /\ AllEnabled => Performed(t) = <<"cuda">>

C1_Witness ==
    \E t \in Threads :
        /\ Transformed(t)
        /\ AllEnabled
        /\ Performed(t) = <<"cuda">>
        /\ loc[t].shape = <<3, 3>>
        /\ ~loc[t].forward

\* C2: a backend (CUDA, OpenCL, FFTW) is chosen or run in a call only if its
\* library is present and its option is set in the configuration at that call;
\* when none of the three is both present and enabled, numpy does the transform.
C2_OnlyEffectiveBackends ==
    \A t \in Threads : InFft(t) =>
        /\ \A b \in {"cuda", "opencl", "fftw"} :
              (loc[t].method = b \/ b \in Range(loc[t].ops))
                  => (avail[b] /\ conf["use_" \o b])
        /\ (Transformed(t) /\ \A b \in {"cuda", "opencl", "fftw"} :
                                  ~(avail[b] /\ conf["use_" \o b]))
              => Performed(t) = <<"numpy">>

C2_Witness ==
    \E t \in Threads :
        /\ Transformed(t)
        /\ conf["use_cuda"] /\ ~avail["cuda"]
        /\ ~conf["use_opencl"] /\ avail["opencl"]
        /\ conf["use_fftw"] /\ avail["fftw"]
        /\ Performed(t) = <<"fftw">>

\* n is one of 1, 2, 4, 8, ...
IsPowerOfTwo(n) == \E k \in 0 .. n : 2 ^ k = n

\* C3: whenever OpenCL is present and enabled, CUDA is not, and the leading
\* dimension is not a power of two, the call is served by FFTW if that is
\* present and enabled and by numpy otherwise; OpenCL only ever transforms
\* arrays whose leading dimension is a power of two.
C3_SizeDemotion ==
    \A t \in Threads : InFft(t) =>
        /\ (/\ avail["opencl"] /\ conf["use_opencl"]
            /\ ~(avail["cuda"] /\ conf["use_cuda"])
            /\ ~IsPowerOfTwo(loc[t].shape[1]))
              => loc[t].method =
                    IF avail["fftw"] /\ conf["use_fftw"] THEN "fftw" ELSE "numpy"
        /\ "opencl" \in Range(loc[t].ops) => IsPowerOfTwo(loc[t].shape[1])

\* the same for arrays with at least one row
C3_SizeDemotionOfNonEmpty ==
    \A t \in Threads : (InFft(t) /\ loc[t].shape[1] > 0) =>
        /\ (/\ avail["opencl"] /\ conf["use_opencl"]
            /\ ~(avail["cuda"] /\ conf["use_cuda"])
            /\ ~IsPowerOfTwo(loc[t].shape[1]))
              => loc[t].method =
                    IF avail["fftw"] /\ conf["use_fftw"] THEN "fftw" ELSE "numpy"
        /\ "opencl" \in Range(loc[t].ops) => IsPowerOfTwo(loc[t].shape[1])

\* the wavefront as fft_2d hands it to the backend: the caller's array, after
\* the inverse shift when one applies
BeforeTransform(l) ==
    IF (~l.forward) /\ l.fftshift THEN _ifftshift(l.input, l.shape) ELSE l.input

OnFftw(t) == InFft(t) /\ loc[t].method = "fftw"

\* C4: with one caller, the calibration pass completes at most once for every
\* (shape, direction); no pass is started for a key already in _FFTW_INIT, and
\* the real FFTW transform of a key is only reached after that key's own pass.
C4_CalibrationAtMostOnce ==
    /\ \A k \in Keys : calibrations[k] <= 1
    /\ \A t \in Threads :
          /\ pc[t] = "calibrate" =>
                (FftwKey(loc[t]) \notin FFTW_INIT /\ calibrations[FftwKey(loc[t])] = 0)
          /\ pc[t] = "fftw_exec" =>
                (FftwKey(loc[t]) \in FFTW_INIT /\ calibrations[FftwKey(loc[t])] = 1)

C4_Witness ==
    \E t \in Threads :
        /\ calls = 2
        /\ pc[t] = "fftw_exec"
        /\ "calibrate" \notin Range(loc[t].ops)
        /\ calibrations[FftwKey(loc[t])] = 1
        /\ \E k \in Keys : k # FftwKey(loc[t]) /\ calibrations[k] = 0

\* C5: with several callers at once, the calibration pass of a key does not
\* run to completion more than once.
C5_CalibrationAtMostOnceConcurrent ==
    \A k \in Keys : \A t \in Threads :
        (pc[t] = "mark" /\ FftwKey(loc[t]) = k) => calibrations[k] = 1

\* C6: the calibration pass runs on a fresh zero array and leaves the caller's
\* array alone: from the backend branch to the real transform the wavefront
\* holds what the caller gave (inverse-shifted where that applies), and that is
\* what the real transform receives, on a first call and on later ones.
C6_CalibrationLeavesWavefront ==
    \A t \in Threads : OnFftw(t) =>
        /\ pc[t] \in {"dispatch", "calibrate", "mark", "fftw_exec"} =>
              loc[t].wavefront = BeforeTransform(loc[t])
        /\ pc[t] = "mark" =>
              loc[t].test_array = Transform(Zeros(loc[t].shape), loc[t].forward)
        /\ pc[t] \in {"postshift", "done"} => loc[t].given = BeforeTransform(loc[t])

C6_Witness ==
    \E t \in Threads :
        /\ OnFftw(t)
        /\ pc[t] = "postshift"
        /\ "calibrate" \in Range(loc[t].ops)
        /\ ~loc[t].forward
        /\ loc[t].shape = <<3, 3>>
        /\ loc[t].given = BeforeTransform(loc[t])
        /\ loc[t].given # loc[t].input

\* C7: a calibration that raises leaves its key out of _FFTW_INIT and the
\* error reaches the caller; a key is in _FFTW_INIT only after a pass that
\* completed, and no call reaches the real FFTW transform of a key, after a
\* failure or otherwise, without such a pass.
C7_FailedCalibrationNotCached ==
    /\ \A k \in FFTW_INIT : calibrations[k] >= 1
    /\ \A k \in failed : calibrations[k] = 0 => k \notin FFTW_INIT
    /\ \A t \in Threads : OnFftw(t) =>
          /\ (pc[t] = "raised" /\ loc[t].err = "PlanCreationError") =>
                (FftwKey(loc[t]) \notin FFTW_INIT /\ FftwKey(loc[t]) \in failed)
          /\ pc[t] \in {"fftw_exec", "postshift", "done"} =>
                calibrations[FftwKey(loc[t])] >= 1

C7_Witness ==
    \E t \in Threads :
        /\ calls = 2
        /\ pc[t] = "calibrate"
        /\ FftwKey(loc[t]) \in failed
        /\ FftwKey(loc[t]) \notin FFTW_INIT

Cached == {"context", "queue"} \subseteq DOMAIN OPENCL_STATE
HasPair(t) ==
    \/ pc[t] = "opencl_exec"
    \/ pc[t] = "done" /\ loc[t].fn = "get_opencl_context"

\* C8: with one caller, at most one context and one queue are ever created;
\* every call that returns a pair returns the cached one, and once the pair is
\* cached no call enumerates platforms, creates anything or changes the state.
C8_OneContext ==
    /\ [](/\ contexts <= 1
          /\ queues <= 1
          /\ \A t \in Threads : HasPair(t) =>
                /\ Cached
                /\ loc[t].result = <<OPENCL_STATE["context"], OPENCL_STATE["queue"]>>
                /\ loc[t].result = <<1, 1>>)
    /\ [][Cached => /\ OPENCL_STATE' = OPENCL_STATE
                    /\ enumerations' = enumerations
                    /\ contexts' = contexts
                    /\ queues' = queues]_vars

C8_Witness ==
    \E t \in Threads :
        /\ calls = 2
        /\ pc[t] = "done"
        /\ loc[t].fn = "get_opencl_context"
        /\ loc[t].result = <<1, 1>>
        /\ loc[t].context = 0
        /\ enumerations = 1
        /\ contexts = 1

\* C9: a call that finds more than one platform raises RuntimeError, chooses
\* no platform and creates nothing: _OPENCL_STATE stays empty, and a call never
\* takes the cached branch on an empty state, so the next one enumerates again.
C9_SeveralPlatformsFail ==
    \A t \in Threads :
        /\ loc[t].platforms > 1 =>
              /\ pc[t] = "raised"
              /\ loc[t].err = "RuntimeError"
              /\ OPENCL_STATE = EmptyDict
              /\ contexts = 0
              /\ queues = 0
        /\ pc[t] = "ctx_return" => OPENCL_STATE # EmptyDict

C9_Witness ==
    \E t \in Threads :
        /\ calls = 2
        /\ enumerations = 2
        /\ loc[t].platforms = 2
        /\ pc[t] = "raised"
        /\ OPENCL_STATE = EmptyDict

\* the steps of a call in their order, the calibration pass left out
StepsOf(t) == SelectSeq(loc[t].ops, LAMBDA o : o # "calibrate")

\* C10: a call that returns has run, in this order: the inverse shift (only
\* for a backward transform with shifting), the backend's transform, the shift
\* (only for a forward transform with shifting), the multiplication by the
\* normalization; and its array is the result of exactly these steps.
C10_StepOrder ==
    \A t \in Threads : (InFft(t) /\ pc[t] = "done") =>
        LET l == loc[t]
            before == IF (~l.forward) /\ l.fftshift THEN <<"ifftshift">> ELSE <<>>
            after == IF l.forward /\ l.fftshift THEN <<"fftshift">> ELSE <<>>
            transformed == Transform(BeforeTransform(l), l.forward)
            shifted == IF l.forward /\ l.fftshift
                       THEN _fftshift(transformed, l.shape) ELSE transformed
        IN  /\ StepsOf(t) = before \o <<l.method>> \o after \o <<"normalize">>
            /\ l.wavefront = Scale(shifted, l.normalization)

C10_Witness ==
    \E t \in Threads :
        /\ InFft(t)
        /\ pc[t] = "done"
        /\ ~loc[t].forward
        /\ loc[t].fftshift
        /\ loc[t].shape = <<2, 3>>
        /\ loc[t].ops = <<"ifftshift", "calibrate", "fftw", "normalize">>

\* the scalar a call has to multiply by: the caller's, or the backend's default
\* with N the leading dimension
ExpectedNorm(l) ==
    IF l.norm_arg # None THEN l.norm_arg
    ELSE IF l.method = "cuda" THEN <<1, l.shape[1]>>
    ELSE IF l.forward THEN <<1, l.shape[1]>>
    ELSE <<l.shape[1], 1>>

OnConstant(t) ==
    /\ InFft(t)
    /\ loc[t].forward
    /\ loc[t].shape \in ConstShapes
    /\ \A i \in DOMAIN loc[t].input : loc[t].input[i] = loc[t].input[0]

\* the zero-frequency bin of the array in hand equals before, and after the
\* default normalization equals after (a scalar <<p, q>> stands for p/q)
ZeroFrequencyIs(t, before, after) ==
    LET l == loc[t]
    IN  /\ pc[t] = "postshift" =>
              /\ l.wavefront[0].bin = 0
              /\ ForwardBinZero(l.wavefront[0].of) = before
        /\ (pc[t] = "done" /\ l.norm_arg = None) =>
              /\ \E i \in DOMAIN l.wavefront : l.wavefront[i].x.bin = 0
              /\ \A i \in DOMAIN l.wavefront : l.wavefront[i].x.bin = 0 =>
                    l.wavefront[i].mul[1] * ForwardBinZero(l.wavefront[i].x.of)
                        = after * l.wavefront[i].mul[2]

\* C12 as stated: for a constant square array of side N filled with c, the
\* zero-frequency bin of the forward transform is c*N before normalization and
\* c after the default normalization, on every backend.
C12_ZeroFrequencyOfConstant ==
    \A t \in Threads : OnConstant(t) =>
        ZeroFrequencyIs(t, loc[t].input[0].val * loc[t].shape[1],
                        loc[t].input[0].val)

\* C12 amended: the zero-frequency bin of the forward transform is the sum of
\* the N*N cells, c*N*N, before normalization and c*N after the default
\* normalization (1/N), on every backend.
C12_ZeroFrequencyIsSum ==
    \A t \in Threads : OnConstant(t) =>
        ZeroFrequencyIs(t,
            loc[t].input[0].val * loc[t].shape[1] * loc[t].shape[1],
            loc[t].input[0].val * loc[t].shape[1])

C12_Witness ==
    \E t \in Threads :
        /\ OnConstant(t)
        /\ pc[t] = "done"
        /\ loc[t].norm_arg = None
        /\ loc[t].shape = <<2, 2>>
        /\ loc[t].input[0].val = 2
        /\ loc[t].wavefront[3].x.bin = 0
        /\ loc[t].wavefront[3].mul = <<1, 2>>
        /\ ForwardBinZero(loc[t].wavefront[3].x.of) = 8

EvenDims(shape) == shape[1] % 2 = 0 /\ shape[2] % 2 = 0

\* C13: for every array with even dimensions, _ifftshift applied to the
\* result of _fftshift gives back the array, cell for cell, whether the two
\* helpers took the numpy path or the kernel path.
C13_ShiftRoundTrip ==
    \A t \in Threads :
        (pc[t] = "unshifted" /\ EvenDims(loc[t].shape)) =>
            loc[t].wavefront = loc[t].input

C13_Witness ==
    \E t \in Threads :
        /\ pc[t] = "unshifted"
        /\ loc[t].shape = <<BlockDim, BlockDim>>
        /\ loc[t].ops = <<"kernel", "kernel">>
        /\ loc[t].wavefront = loc[t].input
        /\ loc[t].input[0] # loc[t].input[sEq1(BlockDim)]

\* CUDA is enabled for a call made now
CudaEnabledNow == conf["use_cuda"] /\ avail["cuda"]

\* C16: a call of _fftshift or _ifftshift takes the kernel path exactly when
\* CUDA is enabled at the time of the call (library present and use_cuda set
\* in the configuration then), the array is square and its side is a multiple
\* of 32; in every other case it takes the numpy path, also when use_cuda was
\* switched after the module was loaded.
C16_KernelIffCudaEnabled ==
    \A t \in Threads :
        pc[t] \in {"shifted", "unshifted"} =>
            \A k \in DOMAIN loc[t].ops :
                (loc[t].ops[k] = "kernel") <=>
                    /\ CudaEnabledNow
                    /\ loc[t].shape[1] = loc[t].shape[2]
                    /\ loc[t].shape[1] % BlockDim = 0

\* the same with the flag the helpers read, _USE_CUDA as set at import
C16_KernelIffCudaEnabledAtImport ==
    \A t \in Threads :
        pc[t] \in {"shifted", "unshifted"} =>
            \A k \in DOMAIN loc[t].ops :
                (loc[t].ops[k] = "kernel") <=>
                    /\ modUseCuda
                    /\ loc[t].shape[1] = loc[t].shape[2]
                    /\ loc[t].shape[1] % BlockDim = 0

\* the kernel ran on a 32 x 32 array although CUDA is switched off
C16_StaleKernel ==
    \E t \in Threads :
        /\ pc[t] = "shifted"
        /\ loc[t].shape = <<BlockDim, BlockDim>>
        /\ loc[t].ops = <<"kernel">>
        /\ ~conf["use_cuda"]

\* the selection of a running call: its flags after the demotion, its backend
Selection(l) == <<l.USE_CUDA, l.USE_OPENCL, l.USE_FFTW, l.method>>

\* C14: a failure of the selected backend ends the call with that error: the
\* call is never continued after an error, no backend has transformed and
\* nothing was normalised when it is raised; and the flags and the backend
\* fixed on entry, demotion included, never change while the call runs.
C14_FailurePropagates ==
    /\ [](\A t \in Threads : (InFft(t) /\ loc[t].err # "none") =>
              /\ pc[t] = "raised"
              /\ Performed(t) = <<>>
              /\ "normalize" \notin Range(loc[t].ops))
    /\ [][\A t \in Threads : (InFft(t) /\ loc'[t].fn = "fft_2d") =>
              /\ Selection(loc'[t]) = Selection(loc[t])
              /\ pc[t] = "raised" => pc'[t] = "raised"]_vars

C14_Witness ==
    \E t \in Threads :
        /\ InFft(t)
        /\ pc[t] = "raised"
        /\ loc[t].err = "BackendExecutionError"
        /\ loc[t].method = "cuda"
        /\ loc[t].USE_FFTW
        /\ Performed(t) = <<>>

\* the backend for an array of this shape, from the libraries present and the
\* configuration as it is now
BackendNow(shape) ==
    IF conf["use_cuda"] /\ avail["cuda"] THEN "cuda"
    ELSE IF conf["use_opencl"] /\ avail["opencl"] /\ ispowerof2(shape[1])
         THEN "opencl"
    ELSE IF conf["use_fftw"] /\ avail["fftw"] THEN "fftw"
    ELSE "numpy"

\* C15: the backend of every call is the one that the libraries present, the
\* configuration at the time of the call and the call's own shape give,
\* whatever calls and changes of the configuration came before: an earlier
\* demoted call does not keep OpenCL from a later power-of-two call, and a
\* changed option is in force in the very next call.
C15_SelectionHasNoMemory ==
    \A t \in Threads : InFft(t) =>
        /\ loc[t].method = BackendNow(loc[t].shape)
        /\ loc[t].USE_CUDA = (conf["use_cuda"] /\ avail["cuda"])
        /\ loc[t].USE_FFTW = (conf["use_fftw"] /\ avail["fftw"])

\* a second call served by numpy after an earlier call had CUDA make a plan:
\* use_cuda was switched off between the two
C15_Witness ==
    \E t \in Threads :
        /\ InFft(t)
        /\ calls = 2
        /\ pc[t] = "done"
        /\ loc[t].method = "numpy"
        /\ avail["cuda"]
        /\ CUDA_PLANS # {}

InKernel(t) == pc[t] = "kernel"
\* the grid is launched and no thread has made a step
KernelStarting(t) ==
    InKernel(t) /\ \A i \in DOMAIN loc[t].at : loc[t].at[i] \in {"temp", "end"}
KernelEnded(t) == InKernel(t) /\ \A i \in DOMAIN loc[t].at : loc[t].at[i] = "end"

\* C17: for an even side N the kernel, run with one thread per element under
\* any interleaving of the threads' reads and writes, leaves the buffer equal
\* to np.fft.fftshift of the input, the element of (x, y) at
\* ((x + N/2) mod N, (y + N/2) mod N); the first quadrant is swapped with the
\* third by the offset (N*N+N)/2 and the second with the fourth by
\* (N*N-N)/2; every index read or written lies in [0, N*N), and no element is
\* read or written by two threads.
C17_KernelIsFftshift ==
    \A t \in Threads :
        LET l == loc[t]
            N == l.shape[1]
            half == N \div 2
        IN  /\ KernelStarting(t) =>
                  /\ \A i \in Cells(l.shape) :
                        Accesses(i, N) \subseteq Cells(l.shape)
                  /\ \A i, j \in Cells(l.shape) :
                        i # j => Accesses(i, N) \cap Accesses(j, N) = {}
                  /\ \A i \in Cells(l.shape) :
                        (KernelX(i, N) < half /\ KernelY(i, N) < half) =>
                            /\ SwapOffset(i, N) = (N * N + N) \div 2
                            /\ KernelX(i + SwapOffset(i, N), N)
                                   = KernelX(i, N) + half
                            /\ KernelY(i + SwapOffset(i, N), N)
                                   = KernelY(i, N) + half
                  /\ \A i \in Cells(l.shape) :
                        (KernelX(i, N) >= half /\ KernelY(i, N) < half) =>
                            /\ SwapOffset(i, N) = (N * N - N) \div 2
                            /\ KernelX(i + SwapOffset(i, N), N)
                                   = KernelX(i, N) - half
                            /\ KernelY(i + SwapOffset(i, N), N)
                                   = KernelY(i, N) + half
            /\ KernelEnded(t) =>
                  /\ l.wavefront = NpFftshift(l.input, l.shape)
                  /\ l.wavefront = cufftShift_2D_kernel(l.input, N)
                  /\ \A i \in Cells(l.shape) :
                        l.wavefront[At((KernelY(i, N) + half) % N,
                                       (KernelX(i, N) + half) % N, l.shape)]
                            = l.input[i]

\* the 4 x 4 grid has ended, with the last thread of the first quadrant
\* finishing after the threads of the second
C17_Witness ==
    \E t \in Threads :
        /\ KernelEnded(t)
        /\ loc[t].shape = <<4, 4>>
        /\ loc[t].wavefront[0] = loc[t].input[10]
        /\ loc[t].wavefront[10] = loc[t].input[0]
        /\ loc[t].wavefront[3] = loc[t].input[9]

\* C18: with several callers of get_opencl_context at once on an empty state,
\* at most one context and one queue are created, and all callers that get a
\* pair get the same one.
C18_OneContextConcurrent ==
    /\ contexts <= 1
    /\ queues <= 1
    /\ \A t, u \in Threads :
          (HasPair(t) /\ HasPair(u)) => loc[t].result = loc[u].result

\* both callers found the state empty and each constructed a context
C18_TwoContexts ==
    /\ contexts = 2
    /\ \A t \in Threads : loc[t].fn = "get_opencl_context" /\ loc[t].context # 0

\* one caller entered while the other had stored only the platform, took the
\* state for initialised and failed on the missing context
C18_KeyErrorOnPartialState ==
    \E t \in Threads :
        /\ loc[t].fn = "get_opencl_context"
        /\ pc[t] = "raised"
        /\ loc[t].err = "KeyError"
        /\ contexts <= 1

\* the call of t has run a calibration pass
Calibrated(t) == InFft(t) /\ "calibrate" \in Range(loc[t].ops)

\* C19: the zero-filled array of a calibration pass has the element width the
\* precision functions give for the current double_precision (64 bits when it
\* is set, 32 when not), and the real transform after it is called with the
\* planning mode 'FFTW_MEASURE' and the thread count of the calibration.
C19_CalibrationMatchesPrecision ==
    \A t \in Threads : Calibrated(t) =>
        /\ loc[t].test_dtype.bits = _float.bits
        /\ loc[t].calibrated_with.planner_effort = "FFTW_MEASURE"
        /\ Transformed(t) => loc[t].transformed_with = loc[t].calibrated_with

\* the second half alone: same planning mode and thread count in both calls
C19_SameSettings ==
    \A t \in Threads : Calibrated(t) =>
        /\ loc[t].calibrated_with.planner_effort = "FFTW_MEASURE"
        /\ Transformed(t) => loc[t].transformed_with = loc[t].calibrated_with

\* single precision is configured and the calibration ran on 64-bit zeros
C19_DoubleWidthCalibration ==
    \E t \in Threads :
        /\ Calibrated(t)
        /\ Transformed(t)
        /\ ~conf["double_precision"]
        /\ loc[t].test_dtype = [kind |-> "float", bits |-> 64]

\* no call of get_opencl_context is under way
NoCallRunning == \A t \in Threads : pc[t] \in {"idle", "done", "raised"}

\* C20: whenever no call is under way, _OPENCL_STATE is empty or holds both a
\* context and a queue: a failed initialisation leaves it empty, so the next
\* call initialises again.
C20_EmptyOrComplete ==
    NoCallRunning => (DOMAIN OPENCL_STATE = {} \/ Cached)

\* a call failed after the platform was stored and left the state partial
C20_PartialAfterFailure ==
    \E t \in Threads :
        /\ pc[t] = "raised"
        /\ loc[t].err \in {"IndexError", "ContextError", "QueueError"}
        /\ "platform" \in DOMAIN OPENCL_STATE
        /\ ~Cached

\* the next call takes the partial state for initialised: it enumerates
\* nothing and fails on the missing context
C20_NoRetryAfterFailure ==
    \E t \in Threads :
        /\ calls = 2
        /\ pc[t] = "raised"
        /\ loc[t].err = "KeyError"
        /\ enumerations = 1
        /\ contexts = 0
=============================================================================
